---- MODULE Spec2Model ----
(***************************************************************************)
(* Water-level task generator: TaskGenerator (src/src/generator.py),       *)
(* TaskConfig (src/src/config.py) and VideoGenerator                       *)
(* (src/core/video_utils.py).                                              *)
(*                                                                         *)
(* Numbers.  The configured fill-ratio bounds are the rationals            *)
(* k / FillDen.  The fill ratio drawn by random.uniform is any float of    *)
(* the interval; the code reads it only through int(source_height *        *)
(* source_fill), so the draw is modelled on the grid of step               *)
(* 1 / (FillDen * container_height): every real of the interval has a      *)
(* grid point of the interval with the same truncated height.              *)
(* All heights of the model stay far below (animation_frames - 1)^2 = 841, *)
(* so every float product or quotient the code truncates with int() is     *)
(* either an exact integer or at least 1/841 (resp. 1/target_width) away   *)
(* from one; int() of the float is then the floor of the exact rational,   *)
(* which is what \div computes here on non-negative operands.              *)
(***************************************************************************)
EXTENDS Integers, Sequences, FiniteSets, TLC

VARIABLES
    config,            \* TaskConfig fields read by the generator
    CV2_AVAILABLE,     \* video_utils.CV2_AVAILABLE
    video_generator,   \* self.video_generator: "None" or "VideoGenerator"
    pc,                \* position inside generate_task_pair / the encoder call
    source_width,      \* local of _generate_task_data
    target_width,      \* local of _generate_task_data
    source_fill,       \* local of _generate_task_data, in units of
                       \* 1 / (FillDen * container_height)
    clamped,           \* whether the overflow branch (lines 78-83) ran
    task_data,         \* dict returned by _generate_task_data
    first_image,       \* result of _render_initial_state
    final_image,       \* result of _render_final_state
    video_calls,       \* number of calls of _generate_video
    frames,            \* frame list handed to create_video_from_frames
    size_arg,          \* size argument of create_video_from_frames
    encoder,           \* outcome of create_video_from_frames
    task_pair          \* TaskPair returned by generate_task_pair

vars == <<config, CV2_AVAILABLE, video_generator, pc, source_width, target_width,
          source_fill, clamped, task_data, first_image, final_image, video_calls,
          frames, size_arg, encoder, task_pair>>

----------------------------------------------------------------------------
\* Bounds of the model
MaxWidth == 41
MaxHeight == 5
FillDen == 2
MaxFrames == 3

\* Program constants
MinSeparation == 20
hold_frames == 5
animation_frames == 30

MinWidths == {1, 2}
Heights == 1..MaxHeight
Fills == 0..FillDen
ImageSize == <<512, 512>>
Sizes == {ImageSize, <<256, 256>>, <<512, 256>>}

\* The size argument left at its default, None.
NoSize == <<>>

Abs(x) == IF x < 0 THEN -x ELSE x

----------------------------------------------------------------------------
\* Values

NoImage ==
    [kind |-> "none", source_water |-> 0, target_water |-> 0,
     progress |-> 0, stream |-> FALSE, size |-> <<0, 0>>]

NoTaskData ==
    [source_width |-> 0, source_height |-> 0, source_water_height |-> 0,
     target_width |-> 0, target_height |-> 0, target_water_height |-> 0,
     water_volume |-> 0, type |-> "none"]

NoEncoder == [status |-> "idle", written |-> <<>>, resized |-> {}]

NoTaskPair ==
    [first_image |-> NoImage, final_image |-> NoImage,
     ground_truth_video |-> "unset"]

----------------------------------------------------------------------------
\* TaskGenerator.__init__: the encoder is built only when videos are enabled
\* and the backend is importable.
InitVideoGenerator(generate_videos, available) ==
    IF generate_videos /\ available THEN "VideoGenerator" ELSE "None"

\* The guard of the animation step looking at the configuration alone.
ShouldGenerateVideoConfigOnly(generate_videos, vg) == generate_videos

\* generate_task_pair, line 40: the guard of the animation step.
ShouldGenerateVideo(generate_videos, vg) ==
    generate_videos /\ vg # "None"

----------------------------------------------------------------------------
\* The rejection test with the separation off by one.
TooCloseOffByOne(tw, sw) == Abs(tw - sw) < MinSeparation - 1

\* The rejection test with the separation one too large.
TooCloseStricter(tw, sw) == Abs(tw - sw) < MinSeparation + 1

\* _generate_task_data, line 63: the rejection test of the resampling loop.
TooClose(tw, sw) == Abs(tw - sw) < MinSeparation

\* _generate_task_data, line 68: random.uniform(lo, hi) = lo + (hi - lo) *
\* random() with random() in [0, 1), for bounds lo <= hi in units of
\* 1/FillDen; the draws are in units of 1 / (FillDen * height).  Equal bounds
\* give the bound itself.  Otherwise every value from lo up to, but not
\* including, hi can be drawn; hi itself is returned only by float rounding of
\* the sum, which cannot happen for lo = 0 and can for lo > 0
\* (0.5 + 0.5 * (1 - 2^-53) = 1.0).
UniformDraws(lo, hi, height) ==
    IF lo = hi
    THEN {lo * height}
    ELSE {q \in (lo * height)..(hi * height) : q < hi * height \/ lo > 0}

\* _generate_task_data, line 69: int(source_height * source_fill), the fill
\* in units of 1 / (FillDen * height).
SourceWaterHeight(height, fill) == (height * fill) \div (FillDen * height)

\* The overflow test comparing the volume, not the height it gives.
OverflowsUndivided(volume, tw, height) == volume > height

\* _generate_task_data, lines 75-78: water_volume / target_width > target_height.
Overflows(volume, tw, height) == volume > tw * height

\* The re-derived source height divided by the wrong width.
ClampedSourceHeightWrongWidth(sw, tw, height) == (tw * height) \div tw

\* _generate_task_data, lines 82-83: source height re-derived from the
\* clamped target volume.
ClampedSourceHeight(sw, tw, height) == (tw * height) \div sw

\* _generate_task_data, lines 75 and 85: int(water_volume / target_width).
TargetWaterHeight(volume, tw) == volume \div tw

\* The derivation with line 82 left out: the volume keeps its sampled value.
TaskDataStaleVolume(sw, tw, height, fill) ==
    LET swh0 == SourceWaterHeight(height, fill)
        vol0 == sw * swh0
        over == Overflows(vol0, tw, height)
    IN  [source_width |-> sw,
         source_height |-> height,
         source_water_height |->
             IF over THEN ClampedSourceHeight(sw, tw, height) ELSE swh0,
         target_width |-> tw,
         target_height |-> height,
         target_water_height |->
             IF over THEN height ELSE TargetWaterHeight(vol0, tw),
         water_volume |-> vol0,
         type |-> "default"]

\* _generate_task_data, lines 65-96, for the drawn widths and fill ratio.
TaskData(sw, tw, height, fill) ==
    LET swh0 == SourceWaterHeight(height, fill)
        vol0 == sw * swh0
        over == Overflows(vol0, tw, height)
    IN  [source_width |-> sw,
         source_height |-> height,
         source_water_height |->
             IF over THEN ClampedSourceHeight(sw, tw, height) ELSE swh0,
         target_width |-> tw,
         target_height |-> height,
         target_water_height |->
             IF over THEN height ELSE TargetWaterHeight(vol0, tw),
         water_volume |-> IF over THEN tw * height ELSE vol0,
         type |-> "default"]

----------------------------------------------------------------------------
\* Rendering.  An image is described by what was drawn into it.

\* _render_initial_state: water in the source, empty target.
RenderInitialState(td) ==
    [kind |-> "initial", source_water |-> td.source_water_height,
     target_water |-> 0, progress |-> 0, stream |-> FALSE, size |-> ImageSize]

\* _render_final_state: empty source, water in the target.
RenderFinalState(td) ==
    [kind |-> "final", source_water |-> 0,
     target_water |-> td.target_water_height, progress |-> 0,
     stream |-> FALSE, size |-> ImageSize]

\* Denominator of the eased progress: (animation_frames - 1)^2.
EaseDen == (animation_frames - 1) * (animation_frames - 1)

\* The easing with the outer "1 -" left out: progress = (1 - i/(n-1))^2.
EasedProgressInverted(i) ==
    (animation_frames - 1 - i) * (animation_frames - 1 - i)

\* _generate_video, lines 277-279: progress = 1 - (1 - i/(n-1))^2, as a
\* numerator over EaseDen.
EasedProgress(i) ==
    EaseDen - (animation_frames - 1 - i) * (animation_frames - 1 - i)

\* The source height following the progress instead of its complement.
CurrentSourceRising(source_water, i) ==
    (source_water * EasedProgress(i)) \div EaseDen

\* _generate_video, line 281: int(source_water * (1 - progress)).
CurrentSource(source_water, i) ==
    (source_water * (EaseDen - EasedProgress(i))) \div EaseDen

\* The target height following the linear progress, the easing left out.
CurrentTargetLinear(target_water, i) ==
    (target_water * i) \div (animation_frames - 1)

\* _generate_video, line 282: int(target_water * progress).
CurrentTarget(target_water, i) ==
    (target_water * EasedProgress(i)) \div EaseDen

\* _render_transfer_frame: both containers at the given heights, and the
\* pouring stream while 0 < progress < 1.
RenderTransferFrame(source_water, target_water, progress) ==
    [kind |-> "transfer", source_water |-> source_water,
     target_water |-> target_water, progress |-> progress,
     stream |-> (0 < progress /\ progress < EaseDen), size |-> ImageSize]

\* _generate_video, lines 276-285: the frame of index i.
TransferFrame(td, i) ==
    RenderTransferFrame(CurrentSource(td.source_water_height, i),
                        CurrentTarget(td.target_water_height, i),
                        EasedProgress(i))

\* _generate_video, lines 269-270.
HoldInitial(first) == [j \in 1..hold_frames |-> first]

\* _generate_video, lines 276-285.
Transition(td) == [j \in 1..animation_frames |-> TransferFrame(td, j - 1)]

\* The final hold as long as the initial one.
HoldFinalShort(final) == [j \in 1..hold_frames |-> final]

\* _generate_video, lines 288-289.
HoldFinal(final) == [j \in 1..(hold_frames * 2) |-> final]

\* _generate_video, lines 264-289: the frame list handed to the encoder.
VideoFrames(first, final, td) ==
    HoldInitial(first) \o Transition(td) \o HoldFinal(final)

----------------------------------------------------------------------------
\* VideoGenerator.create_video_from_frames

\* The default size taken from the last frame.
EffectiveSizeOfLast(fs, size) == IF size = NoSize THEN fs[Len(fs)].size ELSE size

\* lines 43-44: the size every frame is brought to.
EffectiveSize(fs, size) == IF size = NoSize THEN fs[1].size ELSE size

\* lines 53-55: the frames that are resized before being written.
ResizedFrames(fs, size) ==
    {j \in 1..Len(fs) : fs[j].size # EffectiveSize(fs, size)}

\* lines 40-62: the outcome of the call.
CreateVideoFromFrames(fs, size) ==
    IF Len(fs) = 0
    THEN [status |-> "ValueError", written |-> <<>>, resized |-> {}]
    ELSE [status |-> "ok",
          written |-> [j \in 1..Len(fs) |-> EffectiveSize(fs, size)],
          resized |-> ResizedFrames(fs, size)]

----------------------------------------------------------------------------
\* Initial states

\* TaskConfig values: a width range, a container height, a fill-ratio range
\* (in units of 1/FillDen) and the generate_videos flag.
Configs(minWidths, heights, videoFlags) ==
    {c \in [min_container_width : minWidths,
            max_container_width : 1..MaxWidth,
            container_height : heights,
            min_fill_ratio : Fills,
            max_fill_ratio : Fills,
            generate_videos : videoFlags] :
        /\ c.min_container_width <= c.max_container_width
        /\ c.min_fill_ratio <= c.max_fill_ratio}

InitWith(cfgs, avail) ==
    /\ config \in cfgs
    /\ CV2_AVAILABLE \in avail
    /\ video_generator = InitVideoGenerator(config.generate_videos, CV2_AVAILABLE)
    /\ pc = "start"
    /\ source_width = 0
    /\ target_width = 0
    /\ source_fill = 0
    /\ clamped = FALSE
    /\ task_data = NoTaskData
    /\ first_image = NoImage
    /\ final_image = NoImage
    /\ video_calls = 0
    /\ frames = <<>>
    /\ size_arg = NoSize
    /\ encoder = NoEncoder
    /\ task_pair = NoTaskPair

----------------------------------------------------------------------------
\* Actions of generate_task_pair

\* line 57
DrawSource ==
    /\ pc = "start"
    /\ \E w \in config.min_container_width..config.max_container_width :
           source_width' = w
    /\ pc' = "draw_target"
    /\ UNCHANGED <<config, CV2_AVAILABLE, video_generator, target_width,
                   source_fill, clamped, task_data, first_image, final_image,
                   video_calls, frames, size_arg, encoder, task_pair>>

\* line 61
DrawTarget ==
    /\ pc = "draw_target"
    /\ \E w \in config.min_container_width..config.max_container_width :
           target_width' = w
    /\ pc' = "loop"
    /\ UNCHANGED <<config, CV2_AVAILABLE, video_generator, source_width,
                   source_fill, clamped, task_data, first_image, final_image,
                   video_calls, frames, size_arg, encoder, task_pair>>

\* lines 63-64: one iteration of the resampling loop drawing w.
Resample(w) ==
    /\ pc = "loop"
    /\ TooClose(target_width, source_width)
    /\ w \in config.min_container_width..config.max_container_width
    /\ target_width' = w
    /\ UNCHANGED <<config, CV2_AVAILABLE, video_generator, pc, source_width,
                   source_fill, clamped, task_data, first_image, final_image,
                   video_calls, frames, size_arg, encoder, task_pair>>

\* lines 63-96: the loop exits, the fill ratio is drawn and the state derived.
FinishTaskData ==
    /\ pc = "loop"
    /\ ~TooClose(target_width, source_width)
    /\ \E f \in UniformDraws(config.min_fill_ratio, config.max_fill_ratio,
                            config.container_height) :
        /\ source_fill' = f
        /\ clamped' = Overflows(
               source_width * SourceWaterHeight(config.container_height, f),
               target_width, config.container_height)
        /\ task_data' = TaskData(source_width, target_width,
                                 config.container_height, f)
    /\ pc' = "render"
    /\ UNCHANGED <<config, CV2_AVAILABLE, video_generator, source_width,
                   target_width, first_image, final_image, video_calls, frames,
                   size_arg, encoder, task_pair>>

\* lines 36-37
RenderImages ==
    /\ pc = "render"
    /\ first_image' = RenderInitialState(task_data)
    /\ final_image' = RenderFinalState(task_data)
    /\ pc' = "video"
    /\ UNCHANGED <<config, CV2_AVAILABLE, video_generator, source_width,
                   target_width, source_fill, clamped, task_data, video_calls,
                   frames, size_arg, encoder, task_pair>>

\* lines 40-41 and 257-292: the animation step.  Calling the encoder on a
\* missing video_generator raises.
GenerateVideo ==
    /\ pc = "video"
    /\ ShouldGenerateVideo(config.generate_videos, video_generator)
    /\ video_calls' = video_calls + 1
    /\ frames' = VideoFrames(first_image, final_image, task_data)
    /\ IF video_generator = "None"
       THEN /\ pc' = "raised"
            /\ UNCHANGED <<encoder, task_pair>>
       ELSE /\ encoder' = CreateVideoFromFrames(frames', NoSize)
            /\ task_pair' = [task_pair EXCEPT !.ground_truth_video =
                   IF encoder'.status = "ok" THEN "path" ELSE "None"]
            /\ pc' = IF encoder'.status = "ok" THEN "assemble" ELSE "raised"
    /\ UNCHANGED <<config, CV2_AVAILABLE, video_generator, source_width,
                   target_width, source_fill, clamped, task_data, first_image,
                   final_image, size_arg>>

\* lines 39-40: video_path stays None.
SkipVideo ==
    /\ pc = "video"
    /\ ~ShouldGenerateVideo(config.generate_videos, video_generator)
    /\ task_pair' = [task_pair EXCEPT !.ground_truth_video = "None"]
    /\ pc' = "assemble"
    /\ UNCHANGED <<config, CV2_AVAILABLE, video_generator, source_width,
                   target_width, source_fill, clamped, task_data, first_image,
                   final_image, video_calls, frames, size_arg, encoder>>

\* lines 43-52
ReturnTaskPair ==
    /\ pc = "assemble"
    /\ task_pair' = [task_pair EXCEPT !.first_image = first_image,
                                      !.final_image = final_image]
    /\ pc' = "done"
    /\ UNCHANGED <<config, CV2_AVAILABLE, video_generator, source_width,
                   target_width, source_fill, clamped, task_data, first_image,
                   final_image, video_calls, frames, size_arg, encoder>>

----------------------------------------------------------------------------
\* A direct call of VideoGenerator.create_video_from_frames(frames, path, size)
EncodeFrames ==
    /\ pc = "encode"
    /\ encoder' = CreateVideoFromFrames(frames, size_arg)
    /\ pc' = "encoded"
    /\ UNCHANGED <<config, CV2_AVAILABLE, video_generator, source_width,
                   target_width, source_fill, clamped, task_data, first_image,
                   final_image, video_calls, frames, size_arg, task_pair>>

----------------------------------------------------------------------------
\* Specifications

\* The steps of _generate_task_data.
SampleNext ==
    \/ DrawSource
    \/ DrawTarget
    \/ \E w \in 1..MaxWidth : Resample(w)
    \/ FinishTaskData

\* generate_task_pair
Next ==
    \/ SampleNext
    \/ RenderImages
    \/ GenerateVideo
    \/ SkipVideo
    \/ ReturnTaskPair

\* Width ranges that admit a separated pair: the narrowest one and the
\* widest of the model.
SeparableConfigs(videoFlags) ==
    {c \in Configs(MinWidths, Heights, videoFlags) :
        c.max_container_width \in
            {c.min_container_width + MinSeparation, MaxWidth}}

\* _generate_task_data under every separable configuration.
SampleInit == InitWith(SeparableConfigs({FALSE}), {FALSE})

SampleSpec == SampleInit /\ [][SampleNext]_vars

\* generate_task_pair on the widest width range and the full fill range,
\* with videos enabled or not and the encoder backend present or not.
Init ==
    InitWith({c \in Configs({1}, Heights, BOOLEAN) :
                 /\ c.max_container_width = MaxWidth
                 /\ c.min_fill_ratio = 0
                 /\ c.max_fill_ratio = FillDen},
             BOOLEAN)

Spec == Init /\ [][Next]_vars

\* The resampling loop under width ranges wider than the separation: the
\* narrowest such range, the ranges on either side of 2 * MinSeparation - 1,
\* and the widest of the model; each width of the range is drawn again and
\* again.
LoopSpans ==
    {MinSeparation + 1, 2 * MinSeparation - 2, 2 * MinSeparation - 1,
     MaxWidth - 1}

LoopInit ==
    InitWith({c \in Configs({1}, {1}, {FALSE}) :
                 /\ c.max_container_width - c.min_container_width \in LoopSpans
                 /\ c.min_fill_ratio = 0
                 /\ c.max_fill_ratio = 0},
             {FALSE})

FairDraws == \A w \in 1..MaxWidth : WF_vars(Resample(w))

FairSpec == LoopInit /\ [][SampleNext]_vars /\ FairDraws

\* Direct calls of create_video_from_frames on frames of any sizes.
FrameOfSize(sz) == [NoImage EXCEPT !.kind = "frame", !.size = sz]

FrameLists ==
    UNION {[1..n -> {FrameOfSize(sz) : sz \in Sizes}] : n \in 0..MaxFrames}

EncoderInit ==
    /\ config = [min_container_width |-> 1, max_container_width |-> MaxWidth,
                 container_height |-> 1, min_fill_ratio |-> 0,
                 max_fill_ratio |-> 0, generate_videos |-> TRUE]
    /\ CV2_AVAILABLE = TRUE
    /\ video_generator = InitVideoGenerator(config.generate_videos, CV2_AVAILABLE)
    /\ pc = "encode"
    /\ source_width = 0
    /\ target_width = 0
    /\ source_fill = 0
    /\ clamped = FALSE
    /\ task_data = NoTaskData
    /\ first_image = NoImage
    /\ final_image = NoImage
    /\ video_calls = 0
    /\ frames \in FrameLists
    /\ size_arg \in {NoSize} \cup Sizes
    /\ encoder = NoEncoder
    /\ task_pair = NoTaskPair

EncoderNext == EncodeFrames

EncoderSpec == EncoderInit /\ [][EncoderNext]_vars

----------------------------------------------------------------------------
\* Properties of the physical state

\* _generate_task_data has returned.
Returned == task_data # NoTaskData

SourceVolume == task_data.source_width * task_data.source_water_height
TargetVolume == task_data.target_width * task_data.target_water_height

\* C1: in every returned state the products source_width x
\* source_water_height and target_width x target_water_height differ by
\* less than target_width when the clamp did not run and by less than
\* source_width when it ran.
C1_ConservationWithinTruncation ==
    Returned =>
        IF clamped
        THEN Abs(SourceVolume - TargetVolume) < task_data.source_width
        ELSE Abs(SourceVolume - TargetVolume) < task_data.target_width

\* A returned state of the clamp branch whose two products differ.
C1_Witness ==
    Returned /\ clamped /\ SourceVolume # TargetVolume

\* C2 as stated: after the clamp both products equal water_volume exactly and
\* the target is full.
C2_ExactConservationAfterClamp ==
    (Returned /\ clamped) =>
        /\ task_data.target_water_height = task_data.target_height
        /\ SourceVolume = TargetVolume
        /\ TargetVolume = task_data.water_volume

\* C2 as amended: after the clamp the target is full, the target product
\* equals water_volume exactly, and the source product is water_volume rounded
\* down to a multiple of source_width (less than one unit of source height
\* below it).
C2_ConservationAfterClamp ==
    (Returned /\ clamped) =>
        /\ task_data.target_water_height = task_data.target_height
        /\ TargetVolume = task_data.water_volume
        /\ SourceVolume <= task_data.water_volume
        /\ task_data.water_volume < SourceVolume + task_data.source_width

\* A returned state of the clamp branch where the source product falls short
\* of the shared volume.
C2_Witness ==
    /\ Returned /\ clamped
    /\ task_data.source_water_height > 0
    /\ SourceVolume < task_data.water_volume

\* C3: in every returned state both water heights lie between 0 and the
\* height of their container.
C3_NoOverflow ==
    Returned =>
        /\ 0 <= task_data.target_water_height
        /\ task_data.target_water_height <= task_data.target_height
        /\ 0 <= task_data.source_water_height
        /\ task_data.source_water_height <= task_data.source_height

\* A returned state of the clamp branch: the target is full and the source
\* height was lowered below the sampled one.
C3_Witness ==
    /\ Returned /\ clamped
    /\ task_data.target_water_height = task_data.target_height
    /\ task_data.source_water_height > 0
    /\ task_data.source_water_height
           < SourceWaterHeight(config.container_height, source_fill)

\* C4: in every returned state the widths are at least 20 apart and both lie
\* in the configured range.
C4_WidthSeparation ==
    Returned =>
        /\ Abs(task_data.source_width - task_data.target_width) >= 20
        /\ task_data.source_width >= config.min_container_width
        /\ task_data.source_width <= config.max_container_width
        /\ task_data.target_width >= config.min_container_width
        /\ task_data.target_width <= config.max_container_width

\* A returned state whose widths are exactly 20 apart, strictly inside the
\* configured range.
C4_Witness ==
    /\ Returned
    /\ task_data.target_width - task_data.source_width = 20
    /\ task_data.source_width > config.min_container_width
    /\ task_data.target_width < config.max_container_width

----------------------------------------------------------------------------
\* Termination of the resampling loop

WidthSpan == config.max_container_width - config.min_container_width

LoopDone == pc = "loop" /\ ~TooClose(target_width, source_width)

\* C5 as stated: under fair draws the loop ends whenever the width range is
\* wider than 20.
C5_LoopTerminatesWiderThan20 ==
    (pc = "loop" /\ WidthSpan > 20) ~> LoopDone

\* C5 as amended: under fair draws the loop ends whenever the width range
\* spans at least 39 (max - min >= 39), for every source width of the range.
C5_LoopTerminates ==
    (pc = "loop" /\ WidthSpan >= 39) ~> LoopDone

\* The loop has ended on a range spanning exactly 39, for a source width in the
\* middle of the range, whose only partner is one end of the range.
C5_Witness ==
    /\ LoopDone
    /\ WidthSpan = 39
    /\ source_width = config.min_container_width + 19
    /\ target_width = config.max_container_width

----------------------------------------------------------------------------
\* Properties of the animation

\* _generate_video has built its frame list.
VideoBuilt == video_calls > 0

\* Positions of the transition frames in the frame list.
TransitionAt(i) == hold_frames + 1 + i
TransitionIndices == 0..(animation_frames - 1)

\* C6: the frame list handed to the encoder is hold_frames copies of
\* first_image, then animation_frames transfer frames of strictly increasing
\* progress, then 2 x hold_frames copies of final_image, and nothing else;
\* no transfer frame is one of the two end images.
C6_ThreePhases ==
    VideoBuilt =>
        /\ Len(frames) = 3 * hold_frames + animation_frames
        /\ first_image.kind = "initial"
        /\ final_image.kind = "final"
        /\ \A j \in 1..hold_frames : frames[j] = first_image
        /\ \A i \in TransitionIndices :
               /\ frames[TransitionAt(i)].kind = "transfer"
               /\ i > 0 => frames[TransitionAt(i - 1)].progress
                               < frames[TransitionAt(i)].progress
        /\ \A j \in 1..Len(frames) :
               j > hold_frames + animation_frames => frames[j] = final_image

\* A finished task whose video was built from a state with water in both
\* containers.
C6_Witness ==
    /\ pc = "done"
    /\ VideoBuilt
    /\ Len(frames) = 45
    /\ task_data.source_water_height > 0
    /\ task_data.target_water_height > 0

\* C7: the first transition frame shows the source at source_water_height and
\* the target at 0, the last one the source at 0 and the target at
\* target_water_height, each within 1 unit.
C7_AnimationContinuity ==
    VideoBuilt =>
        LET first == frames[TransitionAt(0)]
            last == frames[TransitionAt(animation_frames - 1)]
        IN  /\ Abs(first.source_water - task_data.source_water_height) <= 1
            /\ Abs(first.target_water) <= 1
            /\ Abs(last.source_water) <= 1
            /\ Abs(last.target_water - task_data.target_water_height) <= 1

\* A video whose end frames show heights of at least 2 exactly.
C7_Witness ==
    /\ VideoBuilt
    /\ task_data.source_water_height >= 2
    /\ task_data.target_water_height >= 2
    /\ frames[TransitionAt(0)].source_water = task_data.source_water_height
    /\ frames[TransitionAt(animation_frames - 1)].target_water
           = task_data.target_water_height

\* C8: with videos disabled or the encoder backend unavailable, the animation
\* step is never invoked, nothing is raised, and the returned TaskPair has no
\* ground_truth_video while both images are the rendered ones.
C8_VideoSkipped ==
    (~config.generate_videos \/ ~CV2_AVAILABLE) =>
        /\ video_calls = 0
        /\ pc # "raised"
        /\ pc = "done" =>
               /\ task_pair.ground_truth_video = "None"
               /\ task_pair.first_image.kind = "initial"
               /\ task_pair.final_image.kind = "final"

\* A task returned without video although videos are enabled, the encoder
\* backend being unavailable.
C8_Witness ==
    /\ pc = "done"
    /\ config.generate_videos
    /\ ~CV2_AVAILABLE
    /\ task_pair.ground_truth_video = "None"
    /\ task_pair.first_image = RenderInitialState(task_data)

\* The eased progress of frame i as the claim writes it,
\* p' = 1 - (1 - i/(n-1))^2, as numerators over (n-1)^2 = 841.
C10_OneMinusP(i) == (29 - i) * (29 - i)
C10_P(i) == 841 - C10_OneMinusP(i)

\* x is num/841 rounded to the nearest integer.
C10_IsRound(x, num) == 2 * Abs(841 * x - num) <= 841

\* x is num/841 rounded down.
C10_IsFloor(x, num) == 841 * x <= num /\ num < 841 * (x + 1)

\* C10 as stated: every transition frame shows round(source_water_height x
\* (1 - p')) and round(target_water_height x p').
C10_RoundedHeights ==
    VideoBuilt =>
        \A i \in 0..29 :
            /\ C10_IsRound(frames[TransitionAt(i)].source_water,
                           task_data.source_water_height * C10_OneMinusP(i))
            /\ C10_IsRound(frames[TransitionAt(i)].target_water,
                           task_data.target_water_height * C10_P(i))

\* C10 as amended: every transition frame shows floor(source_water_height x
\* (1 - p')) and floor(target_water_height x p').
C10_TruncatedHeights ==
    VideoBuilt =>
        \A i \in 0..29 :
            /\ C10_IsFloor(frames[TransitionAt(i)].source_water,
                           task_data.source_water_height * C10_OneMinusP(i))
            /\ C10_IsFloor(frames[TransitionAt(i)].target_water,
                           task_data.target_water_height * C10_P(i))

\* A video with a frame whose truncated source and target heights both differ
\* from the rounded ones.
C10_Witness ==
    /\ VideoBuilt
    /\ \E i \in 1..28 :
           /\ ~C10_IsRound(frames[TransitionAt(i)].source_water,
                           task_data.source_water_height * C10_OneMinusP(i))
           /\ ~C10_IsRound(frames[TransitionAt(i)].target_water,
                           task_data.target_water_height * C10_P(i))

----------------------------------------------------------------------------
\* Properties of the encoder call

\* The frames of the call do not all have the same size.
SizeMismatch ==
    \E j, k \in 1..Len(frames) : frames[j].size # frames[k].size

\* C9 as stated: frames of different sizes without a size argument are
\* rejected with an error, nothing being resized or written.
C9_MismatchRejected ==
    (pc = "encoded" /\ SizeMismatch /\ size_arg = NoSize) =>
        /\ encoder.status # "ok"
        /\ encoder.resized = {}
        /\ encoder.written = <<>>

\* C9 as amended: frames of different sizes without a size argument are
\* accepted; every frame whose size differs from the first frame's is resized
\* to the first frame's size, and every frame is written at that size.
C9_MismatchResized ==
    (pc = "encoded" /\ SizeMismatch /\ size_arg = NoSize) =>
        /\ encoder.status = "ok"
        /\ Len(encoder.written) = Len(frames)
        /\ \A j \in 1..Len(frames) : encoder.written[j] = frames[1].size
        /\ encoder.resized =
               {j \in 1..Len(frames) : frames[j].size # frames[1].size}

\* A call without size argument whose last frame differs in size from the
\* first and was resized.
C9_Witness ==
    /\ pc = "encoded"
    /\ size_arg = NoSize
    /\ Len(frames) >= 2
    /\ frames[Len(frames)].size # frames[1].size
    /\ Len(frames) \in encoder.resized
    /\ encoder.status = "ok"

----------------------------------------------------------------------------
\* Monotonicity of the animation

\* C11: from one transition frame to the next the source height never rises
\* and the target height never falls, and in every transition frame the source
\* height lies in [0, source_water_height] and the target height in
\* [0, target_water_height].
C11_MonotoneTransfer ==
    VideoBuilt =>
        \A i \in TransitionIndices :
            LET f == frames[TransitionAt(i)]
            IN  /\ 0 <= f.source_water
                /\ f.source_water <= task_data.source_water_height
                /\ 0 <= f.target_water
                /\ f.target_water <= task_data.target_water_height
                /\ i > 0 =>
                       /\ f.source_water
                              <= frames[TransitionAt(i - 1)].source_water
                       /\ f.target_water
                              >= frames[TransitionAt(i - 1)].target_water

\* A video in which, between two consecutive transition frames, the source
\* height drops and, between two others, the target height rises, both staying
\* strictly inside their ranges.
C11_Witness ==
    /\ VideoBuilt
    /\ \E i \in 1..(animation_frames - 1) :
           /\ frames[TransitionAt(i)].source_water
                  < frames[TransitionAt(i - 1)].source_water
           /\ frames[TransitionAt(i)].source_water > 0
    /\ \E i \in 1..(animation_frames - 1) :
           /\ frames[TransitionAt(i)].target_water
                  > frames[TransitionAt(i - 1)].target_water
           /\ frames[TransitionAt(i)].target_water
                  < task_data.target_water_height

====
